---- MODULE Spec2Model ----
(***************************************************************************)
(* Model of app.py: the IQR outlier filter (remove_outliers_iqr), the      *)
(* price feed aggregator (calculate_price_feed), the paged fetch           *)
(* (get_zillow_data) and the Streamlit script body (main).                 *)
(*                                                                         *)
(* Numbers.  price_per_sqft values are integers.  The quantities derived   *)
(* from them are rationals, held exactly as scaled integers:               *)
(*   a quartile       as 4 times its value  (suffix _x4),                  *)
(*   a band limit     as 40 times its value (suffix _x40),                 *)
(*   a median         as 2 times its value  (suffix _x2),                  *)
(*   a multiplier     as 10 times its value (tenths),                      *)
(*   a rolling mean   as a fraction [num, den].                            *)
(* Floating-point rounding of pandas/numpy is not modelled.                *)
(***************************************************************************)
EXTENDS Integers, Sequences, FiniteSets, TLC

\* ------------------------------------------------------------------ bounds
NumStamps == 3        \* distinct sale timestamps of the enumerated datasets
MaxRecords == 3       \* records of an enumerated dataset
MaxGroup == 5         \* records of an enumerated same-day group
MaxListings == 2      \* listings of one page of the search response
MaxFetched == 2       \* records all pages of one fetch hold together
StampsPerDay == 2     \* enumerated timestamps falling on one calendar day

\* --------------------------------------------------------- program constants
LastPage == 8                 \* range(1, 9)
MinWindow == 1                \* slider min_value
MaxWindow == 7                \* slider max_value
DefaultWindow == 3            \* slider value
MinMultiplier10 == 5          \* slider min_value 0.5
MaxMultiplier10 == 30         \* slider max_value 3.0
DefaultMultiplier10 == 15     \* slider value 1.5
MsPerSecond == 1000           \* date_sold_ms / 1000
SecondsPerDay == 86400        \* datetime: seconds of one calendar day

\* ------------------------------------------------------------------ helpers
Max(a, b) == IF a >= b THEN a ELSE b
Min(a, b) == IF a <= b THEN a ELSE b

RECURSIVE SumSeq(_)
SumSeq(s) == IF s = <<>> THEN 0 ELSE Head(s) + SumSeq(Tail(s))

\* All sequences over S of length 0..n.
SeqsUpTo(S, n) == UNION {[1..k -> S] : k \in 0..n}

\* A transaction record as calculate_price_feed reads it (address, price and
\* sqft are carried by the program but read by no computation).
Rec(d, v) == [date |-> d, price_per_sqft |-> v]

\* datetime.fromtimestamp(date_sold_ms/1000): the datetime, in seconds.
fromtimestamp(ms) == ms \div MsPerSecond

\* The calendar day of a datetime.
CalendarDay(dt) == dt \div SecondsPerDay

\* ---------------------------------------------------------- pandas helpers
\* Insert x into the ascending sequence s, after the elements equal to it.
RECURSIVE InsertInt(_, _)
InsertInt(x, s) ==
    IF s = <<>> THEN <<x>>
    ELSE IF x < Head(s) THEN <<x>> \o s
    ELSE <<Head(s)>> \o InsertInt(x, Tail(s))

RECURSIVE SortInts(_)
SortInts(s) ==
    IF s = <<>> THEN <<>>
    ELSE InsertInt(s[Len(s)], SortInts(SubSeq(s, 1, Len(s) - 1)))

\* sorted(S) for a finite set of integers.
RECURSIVE SortedOfSet(_)
SortedOfSet(S) ==
    IF S = {} THEN <<>>
    ELSE LET m == CHOOSE x \in S : \A y \in S : x <= y
         IN <<m>> \o SortedOfSet(S \ {m})

RECURSIVE InsertByDate(_, _)
InsertByDate(r, s) ==
    IF s = <<>> THEN <<r>>
    ELSE IF r.date < Head(s).date THEN <<r>> \o s
    ELSE <<Head(s)>> \o InsertByDate(r, Tail(s))

\* df.sort_values('date')
RECURSIVE sort_values(_)
sort_values(s) ==
    IF s = <<>> THEN <<>>
    ELSE InsertByDate(s[Len(s)], sort_values(SubSeq(s, 1, Len(s) - 1)))

\* df[column] for column = 'price_per_sqft'
Column(df) == [i \in 1..Len(df) |-> df[i].price_per_sqft]

\* Series.quantile(q/4), linear interpolation between order statistics, as 4
\* times its value; vals is not empty.
quantile_nearest_x4(vals, q) ==
    LET s == SortInts(vals)
        k == (q * (Len(s) - 1)) \div 4
    IN  4 * s[k + 1]

quantile_x4(vals, q) ==
    LET s   == SortInts(vals)
        pos == q * (Len(s) - 1)
        k   == pos \div 4
        r   == pos % 4
    IN  IF r = 0 THEN 4 * s[k + 1]
        ELSE (4 - r) * s[k + 1] + r * s[k + 2]

\* Series.median(), as 2 times its value; vals is not empty.
median_x2(vals) ==
    LET s == SortInts(vals)
        n == Len(s)
    IN  IF n % 2 = 1 THEN 2 * s[(n + 1) \div 2]
        ELSE s[n \div 2] + s[n \div 2 + 1]

\* ------------------------------------------------------ remove_outliers_iqr
Q1_x4(df) == quantile_x4(Column(df), 1)
Q3_x4(df) == quantile_x4(Column(df), 3)
IQR_x4(df) == Q3_x4(df) - Q1_x4(df)

upper_bound_narrowing_x40(df, multiplier) == 10 * Q3_x4(df) - multiplier * IQR_x4(df)

lower_bound_x40(df, multiplier) == 10 * Q1_x4(df) - multiplier * IQR_x4(df)
upper_bound_x40(df, multiplier) == 10 * Q3_x4(df) + multiplier * IQR_x4(df)

\* The rows of df inside the band, both ends included.  The quantiles of an
\* empty frame are NaN, every comparison with NaN is False: no row is kept.
remove_outliers_strict(df, multiplier) ==
    IF df = <<>> THEN <<>>
    ELSE SelectSeq(df, LAMBDA r :
            /\ 40 * r.price_per_sqft > lower_bound_x40(df, multiplier)
            /\ 40 * r.price_per_sqft < upper_bound_x40(df, multiplier))

remove_outliers_iqr(df, multiplier) ==
    IF df = <<>> THEN <<>>
    ELSE SelectSeq(df, LAMBDA r :
            /\ 40 * r.price_per_sqft >= lower_bound_x40(df, multiplier)
            /\ 40 * r.price_per_sqft <= upper_bound_x40(df, multiplier))

\* ----------------------------------------------------- calculate_price_feed
\* A rolling mean: NaN, or the fraction num/den.
NaN == [nan |-> TRUE, num |-> 0, den |-> 1]
Frac(n, d) == [nan |-> FALSE, num |-> n, den |-> d]

\* Series.rolling(window, min_periods, center).mean() over the medians raw_x2
\* (each 2 times its value).  Row i reads the rows i+offset-window+1 ..
\* i+offset, offset = (window-1)//2 when centered, cut to the rows that exist;
\* with fewer than min_periods rows read the mean is NaN.
rolling_trailing(raw_x2, window, min_periods, center) ==
    [i \in 1..Len(raw_x2) |->
        LET lo == Max(1, i - window + 1)
            n  == i - lo + 1
        IN  IF n >= min_periods
            THEN Frac(SumSeq(SubSeq(raw_x2, lo, i)), 2 * n)
            ELSE NaN]

rolling_min_periods_1(raw_x2, window, min_periods, center) ==
    [i \in 1..Len(raw_x2) |->
        LET offset == IF center THEN (window - 1) \div 2 ELSE 0
            lo == Max(1, i + offset - window + 1)
            hi == Min(Len(raw_x2), i + offset)
        IN  Frac(SumSeq(SubSeq(raw_x2, lo, hi)), 2 * (hi - lo + 1))]

rolling_mean(raw_x2, window, min_periods, center) ==
    [i \in 1..Len(raw_x2) |->
        LET offset == IF center THEN (window - 1) \div 2 ELSE 0
            lo == Max(1, i + offset - window + 1)
            hi == Min(Len(raw_x2), i + offset)
            n  == hi - lo + 1
        IN  IF n >= min_periods
            THEN Frac(SumSeq(SubSeq(raw_x2, lo, hi)), 2 * n)
            ELSE NaN]

\* sorted(df['date'].unique())
unique_dates(df) == SortedOfSet({df[i].date : i \in 1..Len(df)})

\* df[df['date'] == date]: the rows bearing exactly this datetime.
day_data_of(df, date) == SelectSeq(df, LAMBDA r : r.date = date)

\* The loop over unique_dates: one result per date whose cleaned group is not
\* empty, in ascending date order.
RECURSIVE results_loop(_, _, _)
results_loop(df, dates, iqr_multiplier) ==
    IF dates = <<>> THEN <<>>
    ELSE LET clean == remove_outliers_iqr(day_data_of(df, Head(dates)), iqr_multiplier)
             rest  == results_loop(df, Tail(dates), iqr_multiplier)
         IN  IF Len(clean) > 0
             THEN <<[date |-> Head(dates),
                     price_per_sqft_x2 |-> median_x2(Column(clean)),
                     transaction_count |-> Len(clean)]>> \o rest
             ELSE rest

daily_results(data, iqr_multiplier) ==
    LET df == sort_values(data)
    IN  results_loop(df, unique_dates(df), iqr_multiplier)

\* The result of a call: status "ok" and the rows of the returned frame, or
\* the exception raised and no rows.
Raised(e) == [status |-> e, rows |-> <<>>]
Returned(rows) == [status |-> "ok", rows |-> rows]

\* pd.DataFrame([]) has no columns: sort_values('date') on it, and
\* results_df['price_per_sqft'] on it, raise KeyError.
calculate_price_feed(data, window_size, iqr_multiplier) ==
    IF data = <<>> THEN Raised("KeyError")
    ELSE LET results == daily_results(data, iqr_multiplier)
         IN  IF results = <<>> THEN Raised("KeyError")
             ELSE LET raw_x2 == [i \in 1..Len(results) |-> results[i].price_per_sqft_x2]
                      smooth == rolling_mean(raw_x2, window_size, window_size, TRUE)
                      frame  == [i \in 1..Len(results) |->
                                   [date |-> results[i].date,
                                    price_per_sqft |-> smooth[i],
                                    transaction_count |-> results[i].transaction_count,
                                    price_per_sqft_raw_x2 |-> raw_x2[i]]]
                  IN  Returned(SelectSeq(frame, LAMBDA row : ~row.price_per_sqft.nan))

\* -------------------------------------------------------------------- state
VARIABLES
    session_state,     \* st.session_state: whether it holds 'data', and the data
    window_size,       \* main: the window slider
    iqr_multiplier,    \* main: the multiplier slider, in tenths
    pc,                \* where the running script, or the function under check, is
    page,              \* get_zillow_data: the page the loop is at
    all_data,          \* get_zillow_data: the records appended so far
    requested,         \* history: the pages requested by the running fetch
    failed,            \* get_zillow_data: the loop has hit break
    complete_data,     \* history: the records of the pages processed to their end
    partial_data,      \* history: the records appended from the page that raised
    data,              \* main's data / calculate_price_feed's argument
    df,                \* the result of calculate_price_feed
    metrics,           \* main: the four st.metric values
    error,             \* the exception that ended the script run, or "none"
    day_data,          \* remove_outliers_iqr's argument
    wider_multiplier,  \* a second multiplier, not below iqr_multiplier
    clean_data,        \* remove_outliers_iqr(day_data, iqr_multiplier)
    clean_wider        \* remove_outliers_iqr(day_data, wider_multiplier)

vars == <<session_state, window_size, iqr_multiplier, pc, page, all_data,
          requested, failed, complete_data, partial_data, data, df, metrics,
          error, day_data, wider_multiplier, clean_data, clean_wider>>

fetch_vars == <<page, all_data, requested, failed, complete_data, partial_data>>
filter_vars == <<day_data, wider_multiplier, clean_data, clean_wider>>

NoFrame == [status |-> "none", rows |-> <<>>]
NoMetrics == [shown |-> FALSE]
NoSession == [present |-> FALSE, data |-> <<>>]

\* ------------------------------------------------------------- input domains
\* dateSold values (ms), StampsPerDay of them on each calendar day.
Stamp(k) == fromtimestamp(k * (SecondsPerDay \div StampsPerDay) * MsPerSecond)
DayStamp(d) == Stamp(d * StampsPerDay)
Dates == {Stamp(k) : k \in 0..(NumStamps - 1)}

FeedValues == {10, 20}
FeedMultipliers == {1, DefaultMultiplier10}
Windows == MinWindow..MaxWindow
Datasets == SeqsUpTo({Rec(d, v) : d \in Dates, v \in FeedValues}, MaxRecords)

\* Five consecutive days with price_per_sqft {10,10,10}, {20}, {12,12,12},
\* {8,100,9}, {15,15}.
ScenarioA ==
    << Rec(DayStamp(0), 10), Rec(DayStamp(0), 10), Rec(DayStamp(0), 10),
       Rec(DayStamp(1), 20),
       Rec(DayStamp(2), 12), Rec(DayStamp(2), 12), Rec(DayStamp(2), 12),
       Rec(DayStamp(3), 8), Rec(DayStamp(3), 100), Rec(DayStamp(3), 9),
       Rec(DayStamp(4), 15), Rec(DayStamp(4), 15) >>

FilterValues == {10, 20, 100}
LargeMultiplier10 == 1000 * 10
FilterMultipliers == {0, 1, MinMultiplier10, DefaultMultiplier10, MaxMultiplier10,
                      LargeMultiplier10}
Groups == SeqsUpTo({Rec(DayStamp(0), v) : v \in FilterValues}, MaxGroup)

\* --------------------------------------------- specification of the filter
InitFilter ==
    /\ pc = "filter_ready"
    /\ day_data \in Groups
    /\ iqr_multiplier \in FilterMultipliers
    /\ wider_multiplier \in {m \in FilterMultipliers : m >= iqr_multiplier}
    /\ clean_data = <<>> /\ clean_wider = <<>>
    /\ session_state = NoSession /\ window_size = DefaultWindow
    /\ page = 1 /\ all_data = <<>> /\ requested = <<>> /\ failed = FALSE
    /\ complete_data = <<>> /\ partial_data = <<>>
    /\ data = <<>> /\ df = NoFrame /\ metrics = NoMetrics /\ error = "none"

Filter ==
    /\ pc = "filter_ready"
    /\ clean_data' = remove_outliers_iqr(day_data, iqr_multiplier)
    /\ clean_wider' = remove_outliers_iqr(day_data, wider_multiplier)
    /\ pc' = "filter_done"
    /\ UNCHANGED <<session_state, window_size, iqr_multiplier, fetch_vars, data,
                   df, metrics, error, day_data, wider_multiplier>>

NextFilter == Filter
SpecFilter == InitFilter /\ [][NextFilter]_vars

\* ----------------------------------------- specification of the aggregator
InitFeed ==
    /\ pc = "feed_ready"
    /\ data \in Datasets \cup {ScenarioA}
    /\ window_size \in Windows
    /\ iqr_multiplier \in FeedMultipliers
    /\ df = NoFrame
    /\ session_state = NoSession
    /\ page = 1 /\ all_data = <<>> /\ requested = <<>> /\ failed = FALSE
    /\ complete_data = <<>> /\ partial_data = <<>>
    /\ metrics = NoMetrics /\ error = "none"
    /\ day_data = <<>> /\ wider_multiplier = iqr_multiplier
    /\ clean_data = <<>> /\ clean_wider = <<>>

Feed ==
    /\ pc = "feed_ready"
    /\ df' = calculate_price_feed(data, window_size, iqr_multiplier)
    /\ pc' = "feed_done"
    /\ UNCHANGED <<session_state, window_size, iqr_multiplier, fetch_vars, data,
                   metrics, error, filter_vars>>

NextFeed == Feed
SpecFeed == InitFeed /\ [][NextFeed]_vars

\* ---------------------------------------------------------- get_zillow_data
\* What one listing of a page does to the inner loop: "ok" appends its record;
\* "skip" appends nothing (no livingArea, or KeyError, TypeError or
\* ZeroDivisionError, caught by the inner except); "raise" raises another
\* exception (fromtimestamp on a dateSold out of range, .get on a homeInfo
\* that is no dict), which the inner except does not catch.
NoRec == Rec(0, 0)
ListingRecords == {Rec(DayStamp(0), 10), Rec(DayStamp(1), 20)}
Listings == {[kind |-> "ok", rec |-> r] : r \in ListingRecords}
            \cup {[kind |-> "skip", rec |-> NoRec], [kind |-> "raise", rec |-> NoRec]}

\* What requests.put answers: status 200 and a body with its listings; another
\* status; or an exception before any listing is read (requests.put itself,
\* response.json(), a body without cat1/searchResults/listResults).
Responses ==
    {[status |-> "200", listings |-> ls] : ls \in SeqsUpTo(Listings, MaxListings)}
    \cup {[status |-> "non200", listings |-> <<>>],
          [status |-> "raises", listings |-> <<>>]}

\* The listings the inner loop gets through: all of them, or those before the
\* first that raises.
RECURSIVE Processed(_)
Processed(ls) ==
    IF ls = <<>> \/ Head(ls).kind = "raise" THEN <<>>
    ELSE <<Head(ls)>> \o Processed(Tail(ls))

Raises(ls) == \E i \in 1..Len(ls) : ls[i].kind = "raise"

\* The records the inner loop appends to all_data.
Appended(ls) ==
    LET ok == SelectSeq(Processed(ls), LAMBDA l : l.kind = "ok")
    IN  [i \in 1..Len(ok) |-> ok[i].rec]

\* One pass of the loop over pages: the request and what follows from its
\* answer.  break is failed' = TRUE; the loop goes on only while ~failed.
RequestPage_NoBreak ==
    /\ pc = "fetching" /\ page <= LastPage
    /\ \E response \in Responses :
        /\ Len(all_data) + Len(Appended(response.listings)) <= MaxFetched
        /\ requested' = Append(requested, page)
        /\ all_data' = all_data \o Appended(response.listings)
        /\ page' = page + 1
        /\ IF response.status = "200" /\ ~Raises(response.listings)
           THEN /\ complete_data' = complete_data \o Appended(response.listings)
                /\ UNCHANGED <<failed, partial_data>>
           ELSE /\ failed' = TRUE
                /\ partial_data' = Appended(response.listings)
                /\ UNCHANGED complete_data
    /\ UNCHANGED <<session_state, window_size, iqr_multiplier, pc, data, df,
                   metrics, error, filter_vars>>

RequestPage ==
    /\ pc = "fetching" /\ ~failed /\ page <= LastPage
    /\ \E response \in Responses :
        /\ Len(all_data) + Len(Appended(response.listings)) <= MaxFetched
        /\ requested' = Append(requested, page)
        /\ all_data' = all_data \o Appended(response.listings)
        /\ IF response.status = "200" /\ ~Raises(response.listings)
           THEN /\ complete_data' = complete_data \o Appended(response.listings)
                /\ page' = page + 1
                /\ UNCHANGED <<failed, partial_data>>
           ELSE /\ failed' = TRUE
                /\ partial_data' = Appended(response.listings)
                /\ UNCHANGED <<page, complete_data>>
    /\ UNCHANGED <<session_state, window_size, iqr_multiplier, pc, data, df,
                   metrics, error, filter_vars>>

\* return all_data, and main's "if data: st.session_state.data = data".
FetchReturn_NoGuard ==
    /\ pc = "fetching" /\ (failed \/ page > LastPage)
    /\ data' = all_data
    /\ session_state' = [present |-> TRUE, data |-> all_data]
    /\ pc' = "calculate"
    /\ UNCHANGED <<window_size, iqr_multiplier, fetch_vars, df, metrics, error,
                   filter_vars>>

FetchReturn ==
    /\ pc = "fetching" /\ (failed \/ page > LastPage)
    /\ data' = all_data
    /\ IF all_data # <<>>
       THEN /\ session_state' = [present |-> TRUE, data |-> all_data]
            /\ pc' = "calculate"
       ELSE /\ UNCHANGED session_state
            /\ pc' = "idle"
    /\ UNCHANGED <<window_size, iqr_multiplier, fetch_vars, df, metrics, error,
                   filter_vars>>

\* --------------------------------------------------------------------- main
AppMultipliers == {MinMultiplier10, DefaultMultiplier10, MaxMultiplier10}

\* A script run starts (a rerun): the sliders are read; without held data the
\* button decides whether the fetch runs; with held data the feed is computed.
Rerun ==
    /\ pc = "idle"
    /\ \E w \in Windows, m \in AppMultipliers, button \in BOOLEAN :
        /\ window_size' = w
        /\ iqr_multiplier' = m
        /\ pc' = IF session_state.present THEN "calculate"
                 ELSE IF button THEN "fetching" ELSE "idle"
    /\ page' = 1 /\ all_data' = <<>> /\ requested' = <<>> /\ failed' = FALSE
    /\ complete_data' = <<>> /\ partial_data' = <<>>
    /\ data' = <<>> /\ df' = NoFrame /\ metrics' = NoMetrics /\ error' = "none"
    /\ UNCHANGED <<session_state, filter_vars>>

\* data = st.session_state.data; df = calculate_price_feed(data, ...).  An
\* exception ends the script run.
Calculate ==
    /\ pc = "calculate"
    /\ session_state.present
    /\ data' = session_state.data
    /\ df' = calculate_price_feed(session_state.data, window_size, iqr_multiplier)
    /\ IF df'.status = "ok"
       THEN pc' = "metrics" /\ UNCHANGED error
       ELSE pc' = "idle" /\ error' = df'.status
    /\ UNCHANGED <<session_state, window_size, iqr_multiplier, fetch_vars,
                   metrics, filter_vars>>

\* The four st.metric values: df[...].iloc[0] and .iloc[-1] raise IndexError
\* on a frame without rows.
SummaryMetrics(rows) ==
    [shown   |-> TRUE,
     initial |-> rows[1].price_per_sqft,
     final   |-> rows[Len(rows)].price_per_sqft,
     change_percent |->
        [num |-> 100 * (rows[Len(rows)].price_per_sqft.num - rows[1].price_per_sqft.num),
         den |-> rows[1].price_per_sqft.num],
     avg_transactions |->
        [num |-> SumSeq([i \in 1..Len(rows) |-> rows[i].transaction_count]),
         den |-> Len(rows)]]

Metrics ==
    /\ pc = "metrics"
    /\ IF df.rows = <<>>
       THEN error' = "IndexError" /\ UNCHANGED metrics
       ELSE metrics' = SummaryMetrics(df.rows) /\ UNCHANGED error
    /\ pc' = "idle"
    /\ UNCHANGED <<session_state, window_size, iqr_multiplier, fetch_vars, data,
                   df, filter_vars>>

Init ==
    /\ pc = "idle"
    /\ session_state = NoSession
    /\ window_size = DefaultWindow
    /\ iqr_multiplier = DefaultMultiplier10
    /\ page = 1 /\ all_data = <<>> /\ requested = <<>> /\ failed = FALSE
    /\ complete_data = <<>> /\ partial_data = <<>>
    /\ data = <<>> /\ df = NoFrame /\ metrics = NoMetrics /\ error = "none"
    /\ day_data = <<>> /\ wider_multiplier = DefaultMultiplier10
    /\ clean_data = <<>> /\ clean_wider = <<>>

Next == Rerun \/ RequestPage \/ FetchReturn \/ Calculate \/ Metrics
Spec == Init /\ [][Next]_vars

\* ------------------------------------------------------------------- claims
\* The retained daily rows (one per date surviving the filter) of the call
\* under check, and their number N.
Retained == daily_results(data, iqr_multiplier)
RetainedRaw_x2 == [i \in 1..Len(Retained) |-> Retained[i].price_per_sqft_x2]
FloorHalf(w) == (w - 1) \div 2
CeilHalf(w) == (w - 1) - FloorHalf(w)

\* Retained row i (of the rows ret, with medians raw_x2) is a row of the
\* output; and it has the mean of ret's rows i-before .. i+after as its
\* smoothed value.
InOutput(ret, i) == \E j \in 1..Len(df.rows) : df.rows[j].date = ret[i].date
MeanOver(ret, raw_x2, i, before, after) ==
    \A j \in 1..Len(df.rows) :
        df.rows[j].date = ret[i].date =>
            /\ ~df.rows[j].price_per_sqft.nan
            /\ df.rows[j].price_per_sqft.num * (2 * window_size)
                 = SumSeq(SubSeq(raw_x2, i - before, i + after))
                   * df.rows[j].price_per_sqft.den
WindowRule(before, after) ==
    LET ret    == Retained
        raw_x2 == [i \in 1..Len(ret) |-> ret[i].price_per_sqft_x2]
    IN  \A i \in 1..Len(ret) :
            /\ InOutput(ret, i) <=> (i - before >= 1 /\ i + after <= Len(ret))
            /\ InOutput(ret, i) => MeanOver(ret, raw_x2, i, before, after)

\* C1 (as claimed): calculate_price_feed never raises, for the empty record
\* set too, and returns no rows when fewer than `window` dates survive.
C1_Total ==
    pc = "feed_done" =>
        /\ df.status = "ok"
        /\ (Len(Retained) < window_size => df.rows = <<>>)

\* C2 (as claimed): in Scenario A the filter removes 100 from day 4, the raw
\* medians are 10, 20, 12, 8.5, 15 and the output is the rows of days 2, 3, 4.
InScenarioA ==
    /\ pc = "feed_done" /\ data = ScenarioA
    /\ window_size = DefaultWindow /\ iqr_multiplier = DefaultMultiplier10
Day4Clean == Column(remove_outliers_iqr(day_data_of(data, DayStamp(3)), iqr_multiplier))
OutputDates == [j \in 1..Len(df.rows) |-> df.rows[j].date]
C2_ScenarioA_Claimed ==
    InScenarioA =>
        /\ \A k \in 1..Len(Day4Clean) : Day4Clean[k] # 100
        /\ RetainedRaw_x2 = <<20, 40, 24, 17, 30>>
        /\ OutputDates = <<DayStamp(1), DayStamp(2), DayStamp(3)>>

\* C2 (amended): in Scenario A the filter keeps all of day 4 (8, 100, 9: the
\* band is [-60.5, 123.5]), the raw medians are 10, 20, 12, 9, 15 and the
\* output is exactly the 3 rows of days 2, 3, 4, days 1 and 5 trimmed.
C2_ScenarioA ==
    InScenarioA =>
        /\ Day4Clean = <<8, 100, 9>>
        /\ RetainedRaw_x2 = <<20, 40, 24, 18, 30>>
        /\ df.status = "ok"
        /\ OutputDates = <<DayStamp(1), DayStamp(2), DayStamp(3)>>
        /\ [j \in 1..Len(df.rows) |-> df.rows[j].price_per_sqft_raw_x2] = <<40, 24, 18>>
C2_Witness == InScenarioA /\ Len(df.rows) = 3

\* C3 (as claimed): retained row i is output exactly when floor((w-1)/2) rows
\* exist before it and ceil((w-1)/2) after it, its smoothed value being the
\* mean of the rows i-floor((w-1)/2) .. i+ceil((w-1)/2).
C3_Window_Claimed ==
    (pc = "feed_done" /\ df.status = "ok") =>
        WindowRule(FloorHalf(window_size), CeilHalf(window_size))

\* C3 (amended): retained row i is output exactly when ceil((w-1)/2) rows
\* exist before it and floor((w-1)/2) after it, its smoothed value being the
\* unweighted mean of the w rows i-ceil((w-1)/2) .. i+floor((w-1)/2).
C3_Window ==
    (pc = "feed_done" /\ df.status = "ok") =>
        WindowRule(CeilHalf(window_size), FloorHalf(window_size))
C3_Witness ==
    /\ pc = "feed_done" /\ df.status = "ok"
    /\ window_size % 2 = 0 /\ window_size > 2
    /\ Len(df.rows) >= 2 /\ Len(df.rows) < Len(Retained)

\* C4 (as claimed): with records of one calendar day at different times of
\* day, the output has at most one row per calendar date, strictly ascending.
C4_OneRowPerCalendarDate ==
    pc = "feed_done" =>
        \A i, j \in 1..Len(df.rows) :
            i < j => CalendarDay(df.rows[i].date) < CalendarDay(df.rows[j].date)

\* C5 (as claimed): the number of rows of a returned output is at most
\* N - (w - 1).
C5_Trim_Claimed ==
    (pc = "feed_done" /\ df.status = "ok") =>
        Len(df.rows) <= Len(Retained) - (window_size - 1)

\* C5 (amended): the number of output rows is exactly max(0, N - (w - 1)); a
\* call that raises (N = 0) puts out no rows.
C5_Trim ==
    pc = "feed_done" =>
        Len(df.rows) = Max(0, Len(Retained) - (window_size - 1))
C5_Witness ==
    /\ pc = "feed_done" /\ df.status = "ok"
    /\ Len(Retained) >= 1 /\ Len(Retained) < window_size - 1
    /\ df.rows = <<>>

\* The largest and the smallest value of a group that is not empty.
GroupMax(g) == CHOOSE v \in {g[i].price_per_sqft : i \in 1..Len(g)} :
                   \A i \in 1..Len(g) : g[i].price_per_sqft <= v
GroupMin(g) == CHOOSE v \in {g[i].price_per_sqft : i \in 1..Len(g)} :
                   \A i \in 1..Len(g) : g[i].price_per_sqft >= v

\* C6 (as claimed): with multiplier 1000 the filter returns every group
\* unchanged.
C6_Large_Claimed ==
    (pc = "filter_done" /\ wider_multiplier = LargeMultiplier10) =>
        clean_wider = day_data

\* C6 (amended): with multiplier 1000 the filter returns unchanged every
\* group whose range max - min is at most 1000 * IQR (all values equal, or
\* IQR > 0 and no value further than that from the quartiles), so that its
\* median is that of the unfiltered values.
C6_Large ==
    (/\ pc = "filter_done" /\ wider_multiplier = LargeMultiplier10
     /\ day_data # <<>>
     /\ 10 * 4 * (GroupMax(day_data) - GroupMin(day_data))
            <= LargeMultiplier10 * IQR_x4(day_data)) =>
        /\ clean_wider = day_data
        /\ median_x2(Column(clean_wider)) = median_x2(Column(day_data))
C6_Witness ==
    /\ pc = "filter_done" /\ wider_multiplier = LargeMultiplier10
    /\ day_data # <<>> /\ IQR_x4(day_data) > 0
    /\ GroupMax(day_data) = 100 /\ GroupMin(day_data) = 10
    /\ clean_wider = day_data
    /\ Len(clean_data) < Len(day_data)

\* How often v is among the price_per_sqft of the rows of g.
Count(g, v) == Cardinality({i \in 1..Len(g) : g[i].price_per_sqft = v})
WithinBand(g, m) ==
    \A i \in 1..Len(g) :
        /\ 40 * g[i].price_per_sqft >= 10 * Q1_x4(day_data) - m * IQR_x4(day_data)
        /\ 40 * g[i].price_per_sqft <= 10 * Q3_x4(day_data) + m * IQR_x4(day_data)

\* C7: for multipliers 0 <= m1 <= m2 what the filter returns with m1 is among
\* what it returns with m2, and every value returned with m lies in
\* [Q1 - m*IQR, Q3 + m*IQR].
C7_Monotone ==
    pc = "filter_done" =>
        /\ \A v \in FilterValues : Count(clean_data, v) <= Count(clean_wider, v)
        /\ \A v \in FilterValues : Count(clean_wider, v) <= Count(day_data, v)
        /\ WithinBand(clean_data, iqr_multiplier)
        /\ WithinBand(clean_wider, wider_multiplier)
C7_Witness ==
    /\ pc = "filter_done" /\ iqr_multiplier < wider_multiplier
    /\ clean_data # <<>>
    /\ Len(clean_data) < Len(clean_wider) /\ Len(clean_wider) < Len(day_data)

\* C8 (as claimed): main computes the summary metrics only over an output
\* that is not empty: an empty output of the aggregator ends no script run
\* with an exception.
C8_MetricsGuarded ==
    (pc = "idle" /\ df.status = "ok" /\ df.rows = <<>>) => error = "none"

\* get_zillow_data has returned in the script run under way.
FetchReturned == pc # "fetching" /\ requested # <<>>
Iota(n) == [i \in 1..n |-> i]

\* C9 (as claimed): what the fetch returns is exactly the records of the
\* pages that succeeded before the failure.
C9_Returns_Claimed == FetchReturned => data = complete_data

\* C9 (amended): pages are requested 1, 2, .. up to 8, each once; after the
\* first failure no page is requested; the fetch returns, without raising,
\* the records of the pages that succeeded before the failure followed by
\* those the failing page had appended before it raised (none for a non-200
\* status or an exception before the listings are read).
C9_StopOnFirstFailure ==
    /\ [](/\ requested = Iota(Len(requested))
          /\ Len(requested) <= LastPage
          /\ (FetchReturned =>
                /\ data = complete_data \o partial_data
                /\ (~failed => partial_data = <<>> /\ Len(requested) = LastPage)))
    /\ [][(failed /\ pc = "fetching") => requested' = requested]_vars
C9_Witness ==
    /\ FetchReturned /\ failed
    /\ complete_data # <<>> /\ partial_data # <<>>
    /\ Len(requested) = 2

\* C10: the held dataset is written only by a fetch that returned a list that
\* is not empty, and only while none is held; once set it never changes; the
\* feed is computed only on the held dataset, which is not empty and which
\* the computation leaves as it is.
C10_SessionData ==
    /\ [](session_state.present => session_state.data # <<>>)
    /\ [][/\ session_state' # session_state =>
              /\ ~session_state.present
              /\ pc = "fetching" /\ all_data # <<>>
              /\ session_state' = [present |-> TRUE, data |-> all_data]
          /\ (pc = "idle" /\ pc' = "fetching") => ~session_state.present
          /\ df' # df /\ df' # NoFrame =>
              /\ session_state.present /\ session_state.data # <<>>
              /\ df' = calculate_price_feed(session_state.data, window_size,
                                             iqr_multiplier)
              /\ session_state' = session_state]_vars
C10_Witness ==
    /\ session_state.present /\ requested = <<>>
    /\ pc = "idle" /\ df.status = "ok" /\ df.rows # <<>>

====
